---------------------------- MODULE Spec2Model ----------------------------
(***************************************************************************)
(* Model of ua_gui_manager.py: the lazily populated directory tree         *)
(* (FilterPanel), the file listing and its selection (FilePanel), the      *)
(* argument and settings dialogs, the configuration store (UAConfig) and   *)
(* the command construction and launch (execute_upload_assistant).         *)
(*                                                                         *)
(* Text is modelled as Python sees it: a str is a sequence of character    *)
(* codes, so that sorting, lower(), strip(), split(), endswith() and the   *)
(* substring test are computed and not assumed.                            *)
(***************************************************************************)
EXTENDS Integers, Sequences, FiniteSets, TLC

(***************************************************************************)
(* Python str operations.                                                  *)
(***************************************************************************)

\* Optional[str]: None, or a value.
None == << >>

Some(x) == << x >>

(***************************************************************************)
(* What a handler does to the outside world is recorded as events: the     *)
(* dialogs and message boxes it shows, the system calls it makes, and the  *)
(* exception that leaves it, if any.                                       *)
(***************************************************************************)
EvX(e, a, x) == [ev |-> e, arg |-> a, exc |-> x]

Ev(e, a) == EvX(e, a, "none")

\* The trace of an exception no handler catches: it reaches the Tk event loop.
Unhandled(x) == IF x = "none" THEN << >> ELSE << EvX("unhandled", << >>, x) >>

(***************************************************************************)
(* Python's str operations, on strings as sequences of character codes.    *)
(***************************************************************************)

\* min() and max() of a non-empty set of integers.
MinOf(S) == CHOOSE x \in S : \A y \in S : x <= y

MaxOf(S) == CHOOSE x \in S : \A y \in S : x >= y

\* str.lower() on ASCII text.
Lower(s) == [i \in 1..Len(s) |-> IF s[i] >= 65 /\ s[i] <= 90 THEN s[i] + 32 ELSE s[i]]

\* sub occurs in s at position i.
OccursAt(sub, s, i) == /\ i + Len(sub) - 1 <= Len(s)
                       /\ \A j \in 1..Len(sub) : s[i + j - 1] = sub[j]

\* Python's `sub in s`.
Contains(sub, s) == \E i \in 1..(Len(s) - Len(sub) + 1) : OccursAt(sub, s, i)

\* str.startswith / str.endswith.
StartsWith(s, pre) == Len(pre) <= Len(s) /\ SubSeq(s, 1, Len(pre)) = pre

EndsWith(s, suf) == Len(suf) <= Len(s) /\ SubSeq(s, Len(s) - Len(suf) + 1, Len(s)) = suf

\* The characters str.strip() removes (ASCII whitespace).
IsSpace(c) == c \in {9, 10, 11, 12, 13, 28, 29, 30, 31, 32}

\* str.strip().
Strip(s) == LET keep == {i \in 1..Len(s) : ~IsSpace(s[i])}
            IN  IF keep = {} THEN << >> ELSE SubSeq(s, MinOf(keep), MaxOf(keep))

\* str.split(sep) for a one-character separator: the pieces between the
\* separators, empty pieces included.
Split(s, sep) == LET at == {i \in 1..Len(s) : s[i] = sep}
                     n == Cardinality(at)
                     cut(k) == IF k = 0 THEN 0
                               ELSE IF k = n + 1 THEN Len(s) + 1
                               ELSE CHOOSE i \in at : Cardinality({j \in at : j < i}) = k - 1
                 IN  [k \in 1..(n + 1) |-> SubSeq(s, cut(k - 1) + 1, cut(k) - 1)]

\* Python's str `<`: lexicographic on character codes, a proper prefix first.
StrLess(a, b) == \E i \in 1..(Len(b)) :
                    /\ \A j \in 1..(i - 1) : j <= Len(a) /\ a[j] = b[j]
                    /\ i - 1 <= Len(a)
                    /\ (i > Len(a) \/ a[i] < b[i])

\* A sort that ignores the case of the letters.
RECURSIVE SortIgnoringCase(_)
SortIgnoringCase(S) == IF S = {} THEN << >>
                       ELSE LET m == CHOOSE x \in S : \A y \in S \ {x} : StrLess(Lower(x), Lower(y))
                            IN  << m >> \o SortIgnoringCase(S \ {m})

\* list.sort() of a list of distinct strings: the strings of S in ascending order.
RECURSIVE SortStrings(_)
SortStrings(S) == IF S = {} THEN << >>
                  ELSE LET m == CHOOSE x \in S : \A y \in S \ {x} : StrLess(x, y)
                       IN  << m >> \o SortStrings(S \ {m})

\* Every order in which the elements of a finite set can be enumerated.
RECURSIVE Orders(_)
Orders(S) == IF S = {} THEN { << >> }
             ELSE UNION { { << x >> \o o : o \in Orders(S \ {x}) } : x \in S }

\* Truthiness of a str, and of an Optional[str].
Truthy(s) == Len(s) > 0

TruthyOpt(o) == o # None /\ Len(o[1]) > 0

(***************************************************************************)
(* os.path (posixpath).                                                    *)
(***************************************************************************)
Slash == << 47 >>

\* os.path.join(a, b).
Join(a, b) == IF StartsWith(b, Slash) THEN b
              ELSE IF a = << >> \/ EndsWith(a, Slash) THEN a \o b
              ELSE a \o Slash \o b

\* Index just after the last "/" of p (p.rfind('/') + 1), counted from 0.
AfterLastSlash(p) == LET at == {i \in 1..Len(p) : p[i] = 47}
                     IN  IF at = {} THEN 0 ELSE MaxOf(at)

\* os.path.basename(p).
BaseName(p) == SubSeq(p, AfterLastSlash(p) + 1, Len(p))

\* os.path.dirname(p): the head, without its trailing slashes unless it is all slashes.
DirName(p) == LET head == SubSeq(p, 1, AfterLastSlash(p))
                  keep == {i \in 1..Len(head) : head[i] # 47}
              IN  IF keep = {} THEN head ELSE SubSeq(head, 1, MaxOf(keep))


(***************************************************************************)
(* The filesystem: a function from absolute path to what is there: its     *)
(* kind, whether it can be read (a directory listed, a file opened), its   *)
(* content, and, as a directory entry has them, its name and the path of   *)
(* the directory it is in.                                                 *)
(***************************************************************************)

\* The working directory against which a relative path is resolved.
Cwd == Slash

\* The absolute form of a path the program hands to the operating system.
Abs(p) == IF StartsWith(p, Slash) THEN p ELSE Join(Cwd, p)

\* os.path.exists / os.path.isdir / os.path.isfile.
Exists(fsys, p) == p # << >> /\ Abs(p) \in DOMAIN fsys

IsDir(fsys, p) == Exists(fsys, p) /\ fsys[Abs(p)].kind = "dir"

IsFile(fsys, p) == Exists(fsys, p) /\ fsys[Abs(p)].kind = "file"

\* The exception os.listdir(p) raises, "none" when it returns.
ListdirError(fsys, p) == IF ~Exists(fsys, p) THEN "FileNotFoundError"
                         ELSE IF fsys[Abs(p)].kind # "dir" THEN "NotADirectoryError"
                         ELSE IF ~fsys[Abs(p)].readable THEN "PermissionError"
                         ELSE "none"

\* The names os.listdir(p) returns, in no particular order.
ListNames(fsys, p) == {fsys[q].name : q \in {r \in DOMAIN fsys : fsys[r].parent = Abs(p)}}

\* The paths at or below p.
Below(fsys, p) == {q \in DOMAIN fsys : q = p \/ StartsWith(q, p \o Slash)}

(***************************************************************************)
(* The ttk.Treeview of FilterPanel.  An item is named by its position: the *)
(* root is << >>, the i-th child of item p is Append(p, i).  Each item has *)
(* a text and values: << >> for the placeholder, << path >> for a          *)
(* directory.                                                              *)
(***************************************************************************)
Root == << >>

\* The text of the placeholder child.
LoadingText == << 76, 111, 97, 100, 105, 110, 103, 46, 46, 46 >>

IsChildOf(q, item) == Len(q) = Len(item) + 1 /\ SubSeq(q, 1, Len(item)) = item

IsWithin(q, item) == Len(q) >= Len(item) /\ SubSeq(q, 1, Len(item)) = item

\* dir_tree.get_children(item).
GetChildren(tree, item) == [i \in 1..Cardinality({q \in DOMAIN tree : IsChildOf(q, item)}) |-> Append(item, i)]

\* dir_tree.delete(item): the item and its descendants go, the later siblings move up.
TreeDelete(tree, item) == LET n == Len(item)
                              up(q) == [q EXCEPT ![n] = @ - 1]
                              moved(q) == /\ Len(q) >= n
                                          /\ SubSeq(q, 1, n - 1) = SubSeq(item, 1, n - 1)
                                          /\ q[n] > item[n]
                              kept == {q \in DOMAIN tree : ~IsWithin(q, item)}
                              dom == {IF moved(q) THEN up(q) ELSE q : q \in kept}
                              src(p) == CHOOSE q \in kept : p = (IF moved(q) THEN up(q) ELSE q)
                          IN  [p \in dom |-> tree[src(p)]]

\* The probe without its try block: a directory that cannot be read is
\* looked into all the same.
ProbeUnguarded(fsys, item_path) ==
    \E x \in ListNames(fsys, item_path) : IsDir(fsys, Join(item_path, x))

\* populate_tree's probe: the child directory has at least one subdirectory.
\* A PermissionError of the probe is swallowed: no placeholder.
ProbeHasChildren(fsys, item_path) == /\ ListdirError(fsys, item_path) = "none"
                                     /\ \E x \in ListNames(fsys, item_path) : IsDir(fsys, Join(item_path, x))

\* populate_tree(parent, path): the subdirectories of path, sorted, appended
\* under parent, each with a placeholder child when the probe finds a
\* subdirectory.  exc is the exception that leaves populate_tree ("none":
\* it returns; a PermissionError is swallowed).
PopulateTree(tree, fsys, parent, path) ==
    LET err == ListdirError(fsys, path)
    IN  IF err = "PermissionError" THEN [tree |-> tree, exc |-> "none"]
        ELSE IF err # "none" THEN [tree |-> tree, exc |-> err]
        ELSE LET items == SortStrings({x \in ListNames(fsys, path) : IsDir(fsys, Join(path, x))})
                 base == Len(GetChildren(tree, parent))
                 d == Len(parent) + 1
                 nodes == {Append(parent, base + i) : i \in 1..Len(items)}
                 marks == {Append(q, 1) : q \in {r \in nodes : ProbeHasChildren(fsys, Join(path, items[r[d] - base]))}}
                 new == [q \in nodes \cup marks |->
                           IF q \in nodes
                           THEN [text |-> items[q[d] - base], values |-> << Join(path, items[q[d] - base]) >>]
                           ELSE [text |-> LoadingText, values |-> << >>]]
             IN  [tree |-> tree @@ new, exc |-> "none"]

\* The empty tree.
EmptyTree == [q \in {} |-> [text |-> << >>, values |-> << >>]]

\* What populate_tree(parent, path) lists under a parent without children:
\* the texts of the items it inserts, in order.
ListChildren(fsys, path) ==
    LET built == PopulateTree(EmptyTree, fsys, Root, path).tree
    IN  [i \in 1..Len(GetChildren(built, Root)) |-> built[<< i >>].text]

\* The list `items` of populate_tree after items.sort(), with `order` the
\* sequence os.listdir(path) returned: the names of the directories.
PopulateItems(fsys, path, order) ==
    LET kept == SelectSeq(order, LAMBDA item : IsDir(fsys, Join(path, item)))
    IN  SortStrings({kept[i] : i \in DOMAIN kept})

\* refresh_directory_tree without the test of line 133: the base path is
\* populated whether it exists or not.
RefreshDirectoryTreeUnchecked(fsys, base_path) ==
    PopulateTree(EmptyTree, fsys, Root, base_path)

\* refresh_directory_tree(): every item is deleted, then the base path's
\* subdirectories are inserted at the top level when the base path exists.
RefreshDirectoryTree(fsys, base_path) ==
    IF Exists(fsys, base_path) THEN PopulateTree(EmptyTree, fsys, Root, base_path)
    ELSE [tree |-> EmptyTree, exc |-> "none"]

\* The expansion step going one level further: the first child inserted is
\* populated as well when it got a placeholder.
ExpandItemEager(tree, fsys, item) ==
    LET children == GetChildren(tree, item)
        first == Append(item, 1)
    IN  IF Len(children) = 1 /\ tree[children[1]].text = LoadingText
        THEN LET X == PopulateTree(TreeDelete(tree, children[1]), fsys, item, tree[item].values[1])
             IN  IF first \in DOMAIN X.tree /\ GetChildren(X.tree, first) # << >>
                 THEN PopulateTree(TreeDelete(X.tree, Append(first, 1)), fsys, first,
                                   X.tree[first].values[1])
                 ELSE X
        ELSE [tree |-> tree, exc |-> "none"]

\* on_dir_select without its test of the children: the item is populated on
\* every selection.
ExpandItemUnguarded(tree, fsys, item) ==
    PopulateTree(tree, fsys, item, tree[item].values[1])

\* on_dir_select without line 170: the placeholder is not deleted before
\* the item is populated.
ExpandItemKeepsPlaceholder(tree, fsys, item) ==
    LET children == GetChildren(tree, item)
    IN  IF Len(children) = 1 /\ tree[children[1]].text = LoadingText
        THEN PopulateTree(tree, fsys, item, tree[item].values[1])
        ELSE [tree |-> tree, exc |-> "none"]

\* The expansion step of on_dir_select(item): when the item has exactly one
\* child and that child's text is "Loading...", the child is deleted and the
\* item is populated from its path.
ExpandItem(tree, fsys, item) ==
    LET children == GetChildren(tree, item)
        selected_path == tree[item].values[1]
    IN  IF Len(children) = 1 /\ tree[children[1]].text = LoadingText
        THEN PopulateTree(TreeDelete(tree, children[1]), fsys, item, selected_path)
        ELSE [tree |-> tree, exc |-> "none"]

(***************************************************************************)
(* The file listing of FilePanel.  A listing is the rows of file_listbox   *)
(* and the list current_files, with the message boxes shown (out) and the  *)
(* exception that leaves the call (exc, "none" when it returns).           *)
(***************************************************************************)

\* The label prefix of a missing entry: "[MISSING] ".
MissingPrefix == << 91, 77, 73, 83, 83, 73, 78, 71, 93, 32 >>

\* The two tokens a log line must contain: "missing" and "torrent".
TokMissing == << 109, 105, 115, 115, 105, 110, 103 >>

TokTorrent == << 116, 111, 114, 114, 101, 110, 116 >>

\* The suffix of a log file's name: ".log".
LogSuffix == << 46, 108, 111, 103 >>

IsLogName(f) == EndsWith(f, LogSuffix)

\* The test of a log line: both tokens occur in the lower-cased line.
LineMatches(line) == LET lowered == Lower(line)
                     IN  Contains(TokMissing, lowered) /\ Contains(TokTorrent, lowered)

\* What one log file contributes: the stripped matching lines, in line
\* order; nothing when the file cannot be opened and read.
MissingOfFile(fsys, log_path) ==
    IF ~(IsFile(fsys, log_path) /\ fsys[Abs(log_path)].readable) THEN << >>
    ELSE LET lines == Split(fsys[Abs(log_path)].content, 10)
             hits == SelectSeq(lines, LineMatches)
         IN  [i \in 1..Len(hits) |-> Strip(hits[i])]

\* The loop over log_files with the try block around the loop and not in
\* it: the scan ends at the first file that cannot be read.
RECURSIVE MissingUntilFailure(_, _, _)
MissingUntilFailure(fsys, logs_dir, log_files) ==
    IF log_files = << >> THEN << >>
    ELSE LET log_path == Join(logs_dir, Head(log_files))
         IN  IF ~(IsFile(fsys, log_path) /\ fsys[Abs(log_path)].readable) THEN << >>
             ELSE MissingOfFile(fsys, log_path)
                  \o MissingUntilFailure(fsys, logs_dir, Tail(log_files))

\* missing_files after the loop over log_files.
RECURSIVE MissingOfFiles(_, _, _)
MissingOfFiles(fsys, logs_dir, log_files) ==
    IF log_files = << >> THEN << >>
    ELSE MissingOfFile(fsys, Join(logs_dir, Head(log_files)))
         \o MissingOfFiles(fsys, logs_dir, Tail(log_files))

NoListing == [rows |-> << >>, files |-> << >>, out |-> << >>, exc |-> "none"]

\* log_files: the names ending in ".log", in the order os.listdir returned them.
LogFiles(order) == SelectSeq(order, IsLogName)

\* load_missing_torrents(), with log_files the list built from os.listdir(logs_dir).
LoadMissingTorrents(fsys, logs_dir, log_files) ==
    IF ~Exists(fsys, logs_dir) THEN [NoListing EXCEPT !.out = << Ev("showwarning", logs_dir) >>]
    ELSE IF ListdirError(fsys, logs_dir) # "none"
    THEN [NoListing EXCEPT !.out = << EvX("showerror", logs_dir, ListdirError(fsys, logs_dir)) >>]
    ELSE LET missing_files == MissingOfFiles(fsys, logs_dir, log_files)
         IN  [rows |-> [i \in 1..Len(missing_files) |-> MissingPrefix \o missing_files[i]],
              files |-> missing_files,
              out |-> << >>,
              exc |-> "none"]

\* files.sort().
SortList(names) == SortStrings({names[i] : i \in DOMAIN names})

\* The directory branch with a row for every entry kept and a stored path
\* for the regular files only.
ListDirectoryFilesStored(fsys, directory, order) ==
    LET err == ListdirError(fsys, directory)
        keep(item) == IsFile(fsys, Join(directory, item)) \/ IsDir(fsys, Join(directory, item))
        stored(item) == IsFile(fsys, Join(directory, item))
    IN  IF err = "PermissionError"
        THEN [NoListing EXCEPT !.out = << EvX("showerror", directory, err) >>]
        ELSE IF err # "none" THEN [NoListing EXCEPT !.exc = err]
        ELSE LET files == SortList(SelectSeq(order, keep))
                 paths == SelectSeq(files, stored)
             IN  [rows |-> files,
                  files |-> [i \in 1..Len(paths) |-> Join(directory, paths[i])],
                  out |-> << >>,
                  exc |-> "none"]

\* The directory branch of update_files, with `order` the sequence
\* os.listdir(directory) returns.
ListDirectory(fsys, directory, order) ==
    LET err == ListdirError(fsys, directory)
        keep(item) == IsFile(fsys, Join(directory, item)) \/ IsDir(fsys, Join(directory, item))
    IN  IF err = "PermissionError"
        THEN [NoListing EXCEPT !.out = << EvX("showerror", directory, err) >>]
        ELSE IF err # "none" THEN [NoListing EXCEPT !.exc = err]
        ELSE LET files == SortList(SelectSeq(order, keep))
             IN  [rows |-> files,
                  files |-> [i \in 1..Len(files) |-> Join(directory, files[i])],
                  out |-> << >>,
                  exc |-> "none"]

\* update_files(directory, show_missing_only): the listing is emptied, and
\* stays empty when the directory does not exist; otherwise it is filled
\* from the logs or from the directory.  `listed` is what os.listdir gave:
\* the log files of logs_dir, or the entries of the directory.
UpdateFiles(fsys, logs_dir, directory, show_missing_only, listed) ==
    IF ~Exists(fsys, directory) THEN NoListing
    ELSE IF show_missing_only THEN LoadMissingTorrents(fsys, logs_dir, listed)
    ELSE ListDirectory(fsys, directory, listed)

\* The sequences os.listdir(p) may return: the names in any order.
ListdirOrders(fsys, p) ==
    IF ListdirError(fsys, p) = "none" THEN Orders(ListNames(fsys, p)) ELSE { << >> }

\* What update_files may be given by os.listdir.
Listed(fsys, logs_dir, directory, show_missing_only) ==
    IF show_missing_only THEN {LogFiles(order) : order \in ListdirOrders(fsys, logs_dir)}
    ELSE ListdirOrders(fsys, directory)

\* What update_files can leave: one outcome for each sequence os.listdir may
\* return.
UpdateFilesResults(fsys, logs_dir, directory, show_missing_only) ==
    {UpdateFiles(fsys, logs_dir, directory, show_missing_only, listed) :
        listed \in Listed(fsys, logs_dir, directory, show_missing_only)}

\* An exception leaving a function that returns an Optional.
Raised(exc) == << << >>, exc >>

\* get_selected_file(), with `selection` what file_listbox.curselection()
\* returns: the empty tuple, or the index of the selected row counted from 0.
\* The only test is index < len(current_files); current_files[index] with a
\* negative index counts from the end of the list, and raises IndexError
\* when the index is below -len(current_files).
GetSelectedFile(selection, files) ==
    IF selection # << >> /\ selection[1] < Len(files)
    THEN IF selection[1] >= 0 THEN Some(files[selection[1] + 1])
         ELSE IF selection[1] >= -Len(files) THEN Some(files[Len(files) + selection[1] + 1])
         ELSE Raised("IndexError")
    ELSE None

(***************************************************************************)
(* The world the program runs in: paths, names and file contents.          *)
(***************************************************************************)

\* "/t": a torrents directory with subdirectories B and a, and a file f.mkv.
PathT == << 47, 116 >>

\* "/t/B": its only entry is a directory named "Loading...".
PathB == << 47, 116, 47, 66 >>

\* "/t/B/Loading...", which holds the directory k.
PathBL == << 47, 116, 47, 66, 47, 76, 111, 97, 100, 105, 110, 103, 46, 46, 46 >>

PathBLk == << 47, 116, 47, 66, 47, 76, 111, 97, 100, 105, 110, 103, 46, 46, 46, 47, 107 >>

\* "/t/a": a directory that cannot be read; it holds the directory d.
PathA == << 47, 116, 47, 97 >>

PathAd == << 47, 116, 47, 97, 47, 100 >>

PathF == << 47, 116, 47, 102, 46, 109, 107, 118 >>

\* "/n": a path at which nothing exists.
PathN == << 47, 110 >>

\* "/logs" with x.log, y.log, u.log (not readable) and z.txt.
PathLogs == << 47, 108, 111, 103, 115 >>

PathX == << 47, 108, 111, 103, 115, 47, 120, 46, 108, 111, 103 >>

PathY == << 47, 108, 111, 103, 115, 47, 121, 46, 108, 111, 103 >>

PathU == << 47, 108, 111, 103, 115, 47, 117, 46, 108, 111, 103 >>

PathZ == << 47, 108, 111, 103, 115, 47, 122, 46, 116, 120, 116 >>

\* "ok\nMissing Torrent f\n torrentMISSING \nmissing g"
TextX == << 111, 107, 10, 77, 105, 115, 115, 105, 110, 103, 32, 84, 111, 114, 114, 101, 110, 116, 32, 102, 10, 32, 116, 111, 114, 114, 101, 110, 116, 77, 73, 83, 83, 73, 78, 71, 32, 10, 109, 105, 115, 115, 105, 110, 103, 32, 103 >>

\* "no torrent\nmissing torrent h"
TextY == << 110, 111, 32, 116, 111, 114, 114, 101, 110, 116, 10, 109, 105, 115, 115, 105, 110, 103, 32, 116, 111, 114, 114, 101, 110, 116, 32, 104 >>

\* "missing torrent u"
TextU == << 109, 105, 115, 115, 105, 110, 103, 32, 116, 111, 114, 114, 101, 110, 116, 32, 117 >>

\* "missing torrent z"
TextZ == << 109, 105, 115, 115, 105, 110, 103, 32, 116, 111, 114, 114, 101, 110, 116, 32, 122 >>

DirEntry(path, r) == path :> [kind |-> "dir", readable |-> r, content |-> << >>,
                              name |-> BaseName(path), parent |-> DirName(path)]

FileEntry(path, r, text) == path :> [kind |-> "file", readable |-> r, content |-> text,
                                     name |-> BaseName(path), parent |-> DirName(path)]

\* The filesystem the program starts in.
InitFS == DirEntry(PathT, TRUE) @@ DirEntry(PathB, TRUE) @@ DirEntry(PathBL, TRUE)
          @@ DirEntry(PathBLk, TRUE) @@ DirEntry(PathA, FALSE) @@ DirEntry(PathAd, TRUE)
          @@ FileEntry(PathF, TRUE, << >>) @@ DirEntry(PathLogs, TRUE)
          @@ FileEntry(PathX, TRUE, TextX) @@ FileEntry(PathY, TRUE, TextY)
          @@ FileEntry(PathU, FALSE, TextU) @@ FileEntry(PathZ, TRUE, TextZ)

\* What filedialog.askdirectory can return: "" when cancelled, or a path:
\* a directory, one that cannot be read, or a name typed in that does not exist.
DirChoices == {<< >>, PathT, PathB, PathA, PathN}

\* What simpledialog.askstring can return in rename_file: "" (or None) when
\* cancelled or left empty, or a name: "Z".
NewNames == {<< >>, << 90 >>}

(***************************************************************************)
(* os.rename.                                                              *)
(***************************************************************************)

\* The exception os.rename(old, new) raises, "none" when it renames.
RenameError(fsys, old, new) ==
    IF ~Exists(fsys, old) \/ new = << >> THEN "FileNotFoundError"
    ELSE IF Abs(old) = Abs(new) \/ ~Exists(fsys, new) THEN "none"
    ELSE IF IsFile(fsys, old) /\ IsDir(fsys, new) THEN "IsADirectoryError"
    ELSE IF IsDir(fsys, old) /\ IsFile(fsys, new) THEN "NotADirectoryError"
    ELSE IF IsDir(fsys, old) /\ Below(fsys, Abs(new)) # {Abs(new)} THEN "OSError"
    ELSE "none"

\* The filesystem after a successful os.rename(old, new): what was at new is
\* replaced, and what was at or below old is at or below new.
Rename(fsys, old, new) ==
    LET o == Abs(old)
        n == Abs(new)
        to(q) == n \o SubSeq(q, Len(o) + 1, Len(q))
        stay == DOMAIN fsys \ (Below(fsys, o) \cup Below(fsys, n))
        dom == stay \cup {to(q) : q \in Below(fsys, o)}
    IN  IF o = n THEN fsys
        ELSE [p \in dom |-> IF p \in stay THEN fsys[p]
                            ELSE [fsys[CHOOSE q \in Below(fsys, o) : to(q) = p]
                                    EXCEPT !.name = BaseName(p), !.parent = DirName(p)]]

(***************************************************************************)
(* UAConfig: the PATHS keys and the UA_ARGS section.  The model keeps the  *)
(* argument keys tmdb and tag (text) and freeleech (boolean) of the        *)
(* seventeen the program declares.                                         *)
(***************************************************************************)
KeyTmdb == << 116, 109, 100, 98 >>

KeyTag == << 116, 97, 103 >>

KeyFreeleech == << 102, 114, 101, 101, 108, 101, 101, 99, 104 >>

\* The text arguments, in the order create_arg_widgets declares them.
TextArgs == << KeyTmdb, KeyTag >>

\* The boolean arguments, in the order create_arg_widgets declares them.
BoolArgs == << KeyFreeleech >>

\* The keys of arg_vars in insertion order: the text arguments, then the
\* boolean ones.
ArgOrder == TextArgs \o BoolArgs

\* The keys of the UA_ARGS section in the order load_config declares them.
ConfigArgOrder == << KeyTmdb, KeyFreeleech, KeyTag >>

ArgKeys == {ArgOrder[i] : i \in DOMAIN ArgOrder}

IsBoolArg(k) == \E i \in DOMAIN BoolArgs : BoolArgs[i] = k

StrTrue == << 116, 114, 117, 101 >>

StrFalse == << 102, 97, 108, 115, 101 >>

\* "upload-assistant"
DefaultUAPath == << 117, 112, 108, 111, 97, 100, 45, 97, 115, 115, 105, 115, 116, 97, 110, 116 >>

\* The value of a tk.StringVar and of a tk.BooleanVar; an argument value of
\* the result dict is one or the other too.
StrVal(s) == [isbool |-> FALSE, b |-> FALSE, s |-> s]

BoolVal(b) == [isbool |-> TRUE, b |-> b, s |-> << >>]

\* create_arg_widgets: each variable starts from the stored value.
DialogVars(cfg) == [k \in ArgKeys |-> IF IsBoolArg(k) THEN BoolVal(cfg.ua_args[k] = StrTrue)
                                      ELSE StrVal(cfg.ua_args[k])]

\* UAArgsDialog.launch, first loop: every value is stored, a boolean as
\* 'true' or 'false', a text value as typed.
SaveArgs(cfg, vars) == [cfg EXCEPT !.ua_args = [k \in ArgKeys |->
                           IF vars[k].isbool THEN (IF vars[k].b THEN StrTrue ELSE StrFalse)
                           ELSE vars[k].s]]

\* UAArgsDialog.launch, second loop: the result dict, as the sequence of its
\* (key, value) items in insertion order.  A boolean is always entered; a
\* text value is stripped and entered when something is left.
RECURSIVE ResultItems(_, _)
ResultItems(vars, keys) ==
    IF keys = << >> THEN << >>
    ELSE LET k == Head(keys)
             rest == ResultItems(vars, Tail(keys))
         IN  IF vars[k].isbool THEN << [key |-> k, value |-> vars[k]] >> \o rest
             ELSE IF Truthy(Strip(vars[k].s)) THEN << [key |-> k, value |-> StrVal(Strip(vars[k].s))] >> \o rest
             ELSE rest

\* UAArgsDialog.launch without the strip of line 516: a text value is
\* entered as typed when it is not empty.
PrepareResultRaw(vars) ==
    LET entered == SelectSeq(ArgOrder, LAMBDA k : vars[k].isbool \/ Truthy(vars[k].s))
    IN  [i \in DOMAIN entered |-> [key |-> entered[i], value |-> vars[entered[i]]]]

PrepareResult(vars) == ResultItems(vars, ArgOrder)

\* The test of line 351 as `if value is not None:`.
TruthyValNotNone(v) == TRUE

\* `if value:` for an argument value.
TruthyVal(v) == IF v.isbool THEN v.b ELSE Truthy(v.s)

\* "--"
Dashes == << 45, 45 >>

\* The loop of execute_upload_assistant over args.items(): nothing for a
\* falsy value; for a boolean "--key" when it is true; for a text value
\* "--key", value.
RECURSIVE Flags(_)
Flags(args) ==
    IF args = << >> THEN << >>
    ELSE LET a == Head(args)
         IN  (IF ~TruthyVal(a.value) THEN << >>
              ELSE IF a.value.isbool THEN (IF a.value.b THEN << Dashes \o a.key >> ELSE << >>)
              ELSE << Dashes \o a.key, a.value.s >>)
             \o Flags(Tail(args))

\* The command list of execute_upload_assistant.
BuildCmd(ua_path, file_path, args) == << ua_path, file_path >> \o Flags(args)

(***************************************************************************)
(* The launch of execute_upload_assistant.  The environment says which     *)
(* platform it is and how each program start ends: "ok", or the exception  *)
(* raised.                                                                 *)
(***************************************************************************)
TermGnome == << 103, 110, 111, 109, 101, 45, 116, 101, 114, 109, 105, 110, 97, 108 >>

TermXterm == << 120, 116, 101, 114, 109 >>

TermKonsole == << 107, 111, 110, 115, 111, 108, 101 >>

TermTerminator == << 116, 101, 114, 109, 105, 110, 97, 116, 111, 114 >>

\* terminals, in the order they are tried.
Terminals == << TermGnome, TermXterm, TermKonsole, TermTerminator >>

\* "cmd", the program started on Windows.
ProgCmd == << 99, 109, 100 >>

\* '; read -p "Press Enter to continue..."'
ReadSuffix == << 59, 32, 114, 101, 97, 100, 32, 45, 112, 32, 34, 80, 114, 101, 115, 115, 32, 69, 110, 116, 101, 114, 32, 116, 111, 32, 99, 111, 110, 116, 105, 110, 117, 101, 46, 46, 46, 34 >>

\* ' '.join(cmd).
RECURSIVE JoinSpace(_)
JoinSpace(words) == IF words = << >> THEN << >>
                    ELSE IF Len(words) = 1 THEN words[1]
                    ELSE words[1] \o << 32 >> \o JoinSpace(Tail(words))

\* The argument list handed to subprocess.Popen for a terminal.
TerminalArgv(terminal, command) ==
    IF terminal = TermGnome
    THEN << terminal, << 45, 45 >>, << 98, 97, 115, 104 >>, << 45, 99 >>, JoinSpace(command) \o ReadSuffix >>
    ELSE << terminal, << 45, 101 >>, << 98, 97, 115, 104 >>, << 45, 99 >>, JoinSpace(command) \o ReadSuffix >>

\* The argument list handed to subprocess.Popen on Windows.
WindowsArgv(command) == << ProgCmd, << 47, 99 >>, << 115, 116, 97, 114, 116 >>, ProgCmd, << 47, 107 >> >> \o command

\* The for loop over terminals without the break of line 371: every
\* terminal is tried, whether one has started or not.
RECURSIVE TryEveryTerminal(_, _, _)
TryEveryTerminal(e, terms, command) ==
    IF terms = << >> THEN [out |-> << >>, spawned |-> << >>, exc |-> "none", started |-> FALSE]
    ELSE LET t == Head(terms)
             r == e.popen[t]
             rest == TryEveryTerminal(e, Tail(terms), command)
         IN  IF r = "ok"
             THEN [out |-> << Ev("Popen", t) >> \o rest.out,
                   spawned |-> << TerminalArgv(t, command) >> \o rest.spawned,
                   exc |-> rest.exc, started |-> TRUE]
             ELSE IF r = "FileNotFoundError"
             THEN [rest EXCEPT !.out = << EvX("Popen", t, r) >> \o @]
             ELSE [out |-> << EvX("Popen", t, r) >>, spawned |-> << >>, exc |-> r, started |-> FALSE]

\* The for loop over terminals with `except Exception` in the place of
\* `except FileNotFoundError` at line 372: every failure goes on to the
\* next terminal.
RECURSIVE TryPastAnyFailure(_, _, _)
TryPastAnyFailure(e, terms, command) ==
    IF terms = << >> THEN [out |-> << >>, spawned |-> << >>, exc |-> "none", started |-> FALSE]
    ELSE LET t == Head(terms)
             r == e.popen[t]
         IN  IF r = "ok"
             THEN [out |-> << Ev("Popen", t) >>, spawned |-> << TerminalArgv(t, command) >>,
                   exc |-> "none", started |-> TRUE]
             ELSE LET rest == TryPastAnyFailure(e, Tail(terms), command)
                  IN  [rest EXCEPT !.out = << EvX("Popen", t, r) >> \o @]

\* The for loop over terminals: a terminal that is not found is skipped, the
\* first that starts ends the loop, any other exception leaves the loop.
RECURSIVE TryTerminals(_, _, _)
TryTerminals(e, terms, command) ==
    IF terms = << >> THEN [out |-> << >>, spawned |-> << >>, exc |-> "none", started |-> FALSE]
    ELSE LET t == Head(terms)
             r == e.popen[t]
         IN  IF r = "ok"
             THEN [out |-> << Ev("Popen", t) >>, spawned |-> << TerminalArgv(t, command) >>,
                   exc |-> "none", started |-> TRUE]
             ELSE IF r = "FileNotFoundError"
             THEN LET rest == TryTerminals(e, Tail(terms), command)
                  IN  [rest EXCEPT !.out = << EvX("Popen", t, r) >> \o @]
             ELSE [out |-> << EvX("Popen", t, r) >>, spawned |-> << >>, exc |-> r, started |-> FALSE]

\* The launch without the try block of lines 359-378: an exception leaves
\* execute_upload_assistant.
LaunchUncaught(e, command) ==
    IF e.os_name = "nt"
    THEN [out |-> << EvX("Popen", ProgCmd, e.popen[ProgCmd]) >> \o Unhandled(e.popen[ProgCmd]),
          spawned |-> IF e.popen[ProgCmd] = "ok" THEN << WindowsArgv(command) >> ELSE << >>]
    ELSE LET tried == TryTerminals(e, Terminals, command)
         IN  IF tried.exc # "none" \/ tried.started
             THEN [out |-> tried.out \o Unhandled(tried.exc), spawned |-> tried.spawned]
             ELSE [out |-> tried.out \o << EvX("run", command[1], e.run) >> \o Unhandled(e.run),
                   spawned |-> IF e.run = "ok" THEN << command >> ELSE << >>]

\* The try block of execute_upload_assistant: the events and the processes started.
Launch(e, command) ==
    IF e.os_name = "nt"
    THEN IF e.popen[ProgCmd] = "ok"
         THEN [out |-> << Ev("Popen", ProgCmd) >>, spawned |-> << WindowsArgv(command) >>]
         ELSE [out |-> << EvX("Popen", ProgCmd, e.popen[ProgCmd]),
                          EvX("showerror", << >>, e.popen[ProgCmd]) >>,
               spawned |-> << >>]
    ELSE LET tried == TryTerminals(e, Terminals, command)
         IN  IF tried.exc # "none"
             THEN [out |-> tried.out \o << EvX("showerror", << >>, tried.exc) >>, spawned |-> << >>]
             ELSE IF tried.started THEN [out |-> tried.out, spawned |-> tried.spawned]
             ELSE IF e.run = "ok"
             THEN [out |-> tried.out \o << Ev("run", command[1]) >>, spawned |-> << command >>]
             ELSE [out |-> tried.out \o << EvX("run", command[1], e.run),
                                           EvX("showerror", << >>, e.run) >>,
                   spawned |-> << >>]

(***************************************************************************)
(* The state of the running application.                                   *)
(***************************************************************************)
VARIABLES
    fs,                   \* the filesystem
    config,               \* UAConfig.config
    current_path_var,     \* FilterPanel.current_path_var
    missing_torrents_var, \* FilterPanel.missing_torrents_var
    dir_tree,             \* FilterPanel.dir_tree: item -> [text, values]
    tree_selection,       \* dir_tree.selection(): None or Some(item)
    current_directory,    \* FilePanel.current_directory
    file_listbox,         \* the rows of FilePanel.file_listbox
    current_files,        \* FilePanel.current_files
    dialog,               \* the dialog holding the grab: "none", "ua_args", "settings"
    arg_vars,             \* UAArgsDialog.arg_vars of the open dialog
    result,               \* UAArgsDialog.result of the latest dialog
    out,                  \* the events of the latest handler
    renames,              \* the number of renames made so far
    env,                  \* the platform and the outcome of each program start
    cmd,                  \* the command list execute_upload_assistant built
    spawned,              \* the argument lists of the processes started
    config_file,          \* what UAConfig.config_file holds on disk: the items written
    f_open,               \* the file f save_config has open: None or Some(record)
    seen                  \* what the latest reader of config_file got

treeVars == << dir_tree, tree_selection >>

listVars == << current_directory, file_listbox, current_files >>

dialogVars == << dialog, arg_vars, result >>

launchVars == << env, cmd, spawned >>

storeVars == << config_file, f_open, seen >>

vars == << fs, config, current_path_var, missing_torrents_var, dir_tree, tree_selection,
           current_directory, file_listbox, current_files, dialog, arg_vars, result, out,
           renames, env, cmd, spawned, config_file, f_open, seen >>

\* The successful renames a run of the model makes at most.
MaxRenames == 1

\* The defaults load_config sets, with the paths of the modelled world.
InitConfig == [logs_dir |-> PathLogs,
               torrents_dir |-> PathT,
               upload_assistant_path |-> DefaultUAPath,
               ua_args |-> [k \in ArgKeys |-> IF IsBoolArg(k) THEN StrFalse ELSE << >>]]

(***************************************************************************)
(* UAConfig: the configuration on disk.  The file is modelled by the items *)
(* configparser.write puts out, one per option, in the order of writing.   *)
(***************************************************************************)
KeyLogsDir == << 108, 111, 103, 115, 95, 100, 105, 114 >>

KeyTorrentsDir == << 116, 111, 114, 114, 101, 110, 116, 115, 95, 100, 105, 114 >>

KeyUAPath == << 117, 112, 108, 111, 97, 100, 95, 97, 115, 115, 105, 115, 116, 97, 110, 116, 95, 112, 97, 116, 104 >>

\* config.write(f): section PATHS, then section UA_ARGS, each option as
\* "key = value" in insertion order.
WriteItems(cfg) ==
    << [section |-> "PATHS", key |-> KeyLogsDir, value |-> cfg.logs_dir],
       [section |-> "PATHS", key |-> KeyTorrentsDir, value |-> cfg.torrents_dir],
       [section |-> "PATHS", key |-> KeyUAPath, value |-> cfg.upload_assistant_path] >>
    \o [i \in DOMAIN ConfigArgOrder |->
           [section |-> "UA_ARGS", key |-> ConfigArgOrder[i], value |-> cfg.ua_args[ConfigArgOrder[i]]]]

\* get(section, key) on a parser that read `items`: the value of the
\* option, stripped by the parser, or the fallback '' when it is absent.
GetItem(items, section, key) ==
    LET at == {i \in DOMAIN items : items[i].section = section /\ items[i].key = key}
    IN  IF at = {} THEN << >>
        ELSE Strip(items[CHOOSE i \in at : \A j \in at : j <= i].value)

\* load_config() when the file exists: config.read(config_file), seen
\* through get().
ReadItems(items) ==
    [logs_dir |-> GetItem(items, "PATHS", KeyLogsDir),
     torrents_dir |-> GetItem(items, "PATHS", KeyTorrentsDir),
     upload_assistant_path |-> GetItem(items, "PATHS", KeyUAPath),
     ua_args |-> [k \in ArgKeys |-> GetItem(items, "UA_ARGS", k)]]

\* The first n items of a file being written.
FirstItems(items, n) == SubSeq(items, 1, n)

\* No dialog is open: there are no argument variables.
NoVars == [k \in ArgKeys |-> StrVal(<< >>)]

\* A platform on which nothing was started yet.
InitEnv == [os_name |-> "posix",
            popen |-> [p \in {Terminals[i] : i \in DOMAIN Terminals} \cup {ProgCmd} |-> "FileNotFoundError"],
            run |-> "ok"]

\* What file_listbox.curselection() can return.
Selections(rows) == {<< >>} \cup {<< i >> : i \in 0..(Len(rows) - 1)}

\* The state after UploadAssistantGUI.__init__, the dialogs and the platform
\* apart: the configuration is loaded, the tree is built from torrents_dir
\* and the listing shows torrents_dir.
InitPanels ==
    /\ fs = InitFS
    /\ config = InitConfig
    /\ current_path_var = InitConfig.torrents_dir
    /\ missing_torrents_var = FALSE
    /\ dir_tree = RefreshDirectoryTree(InitFS, InitConfig.torrents_dir).tree
    /\ tree_selection = None
    /\ current_directory = InitConfig.torrents_dir
    /\ \E L \in UpdateFilesResults(InitFS, InitConfig.logs_dir, InitConfig.torrents_dir, FALSE) :
              file_listbox = L.rows /\ current_files = L.files
    /\ result = None
    /\ out = << >>
    /\ renames = 0
    /\ cmd = << >>
    /\ spawned = << >>
    /\ config_file = WriteItems(InitConfig)
    /\ f_open = None
    /\ seen = ReadItems(WriteItems(InitConfig))

\* The application after its construction: no dialog is open.
Init ==
    /\ InitPanels
    /\ dialog = "none"
    /\ arg_vars = NoVars
    /\ env = InitEnv

(***************************************************************************)
(* FilterPanel.                                                            *)
(***************************************************************************)

\* change_directory(): the "..." button.  new_dir is what askdirectory returns.
ChangeDirectory(new_dir) ==
    /\ dialog = "none"
    /\ IF Truthy(new_dir)
       THEN LET R == RefreshDirectoryTree(fs, new_dir)
            IN  /\ current_path_var' = new_dir
                /\ config' = [config EXCEPT !.torrents_dir = new_dir]
                /\ config_file' = WriteItems(config')
                /\ dir_tree' = R.tree
                /\ tree_selection' = None
                /\ out' = << Ev("askdirectory", new_dir), Ev("save_config", new_dir) >>
                          \o Unhandled(R.exc)
       ELSE /\ out' = << Ev("askdirectory", new_dir) >>
            /\ UNCHANGED << current_path_var, config, treeVars, config_file >>
    /\ UNCHANGED << fs, missing_torrents_var, listVars, dialogVars, renames, launchVars, f_open, seen >>

\* View > Refresh Directory Tree: refresh_directory_tree().
RefreshTree ==
    /\ dialog = "none"
    /\ LET R == RefreshDirectoryTree(fs, current_path_var)
       IN  /\ dir_tree' = R.tree
           /\ tree_selection' = None
           /\ out' = Unhandled(R.exc)
    /\ UNCHANGED << fs, config, current_path_var, missing_torrents_var, listVars, dialogVars,
                    renames, launchVars, storeVars >>

\* on_dir_select: the operator selects an item of the tree.  An item with
\* values is shown in the file panel (on_filter_change -> update_files) and
\* then expanded; an exception of the first step leaves the handler.
OnDirSelect(item) ==
    /\ dialog = "none"
    /\ item \in DOMAIN dir_tree
    /\ tree_selection' = Some(item)
    /\ IF dir_tree[item].values = << >>
       THEN /\ out' = << >>
            /\ UNCHANGED << dir_tree, listVars >>
       ELSE LET selected_path == dir_tree[item].values[1]
            IN  \E L \in UpdateFilesResults(fs, config.logs_dir, selected_path, missing_torrents_var) :
                   LET X == IF L.exc = "none" THEN ExpandItem(dir_tree, fs, item)
                            ELSE [tree |-> dir_tree, exc |-> "none"]
                   IN  /\ current_directory' = selected_path
                       /\ file_listbox' = L.rows
                       /\ current_files' = L.files
                       /\ dir_tree' = X.tree
                       /\ out' = L.out \o Unhandled(L.exc) \o Unhandled(X.exc)
    /\ UNCHANGED << fs, config, current_path_var, missing_torrents_var, dialogVars, renames,
                    launchVars, storeVars >>

\* get_selected_path(): the path of the selected item, or the base path.
GetSelectedPath == IF tree_selection # None /\ dir_tree[tree_selection[1]].values # << >>
                   THEN dir_tree[tree_selection[1]].values[1]
                   ELSE current_path_var

\* The "Show Missing Torrents" checkbutton: the variable flips, then
\* FilterPanel.on_filter_change calls update_files for the selected path.
OnFilterChange ==
    /\ dialog = "none"
    /\ missing_torrents_var' = ~missing_torrents_var
    /\ \E L \in UpdateFilesResults(fs, config.logs_dir, GetSelectedPath, ~missing_torrents_var) :
              /\ current_directory' = GetSelectedPath
              /\ file_listbox' = L.rows
              /\ current_files' = L.files
              /\ out' = L.out \o Unhandled(L.exc)
    /\ UNCHANGED << fs, config, current_path_var, treeVars, dialogVars, renames, launchVars, storeVars >>

(***************************************************************************)
(* FilePanel.                                                              *)
(***************************************************************************)

\* The "Refresh" button and View > Refresh Files: refresh_files() calls
\* update_files(current_directory), show_missing_only left at its default.
RefreshFiles ==
    /\ dialog = "none"
    /\ \E L \in UpdateFilesResults(fs, config.logs_dir, current_directory, FALSE) :
              /\ file_listbox' = L.rows
              /\ current_files' = L.files
              /\ out' = L.out \o Unhandled(L.exc)
    /\ UNCHANGED << fs, config, current_path_var, missing_torrents_var, treeVars,
                    current_directory, dialogVars, renames, launchVars, storeVars >>

\* File > Refresh: refresh_all() rebuilds the tree, then refreshes the files;
\* an exception of the first step leaves the handler.
RefreshAll ==
    /\ dialog = "none"
    /\ LET R == RefreshDirectoryTree(fs, current_path_var)
       IN  /\ dir_tree' = R.tree
           /\ tree_selection' = None
           /\ IF R.exc # "none"
              THEN /\ out' = Unhandled(R.exc)
                   /\ UNCHANGED << file_listbox, current_files >>
              ELSE \E L \in UpdateFilesResults(fs, config.logs_dir, current_directory, FALSE) :
                          /\ file_listbox' = L.rows
                          /\ current_files' = L.files
                          /\ out' = L.out \o Unhandled(L.exc)
    /\ UNCHANGED << fs, config, current_path_var, missing_torrents_var, current_directory,
                    dialogVars, renames, launchVars, storeVars >>

\* rename_file(): the "Rename" button, with `selection` the selected row and
\* new_name what askstring returns.  After a successful os.rename the
\* listing is refreshed; every exception of the try block is shown.
RenameFile(selection, new_name) ==
    /\ dialog = "none"
    /\ selection \in Selections(file_listbox)
    /\ LET selected_file == GetSelectedFile(selection, current_files)
       IN  IF ~TruthyOpt(selected_file)
           THEN /\ out' = << Ev("showwarning", << >>) >>
                /\ UNCHANGED << fs, file_listbox, current_files, renames >>
           ELSE LET old_path == selected_file[1]
                    old_name == BaseName(old_path)
                    new_path == Join(DirName(old_path), new_name)
                    err == RenameError(fs, old_path, new_path)
                    renamed == Rename(fs, old_path, new_path)
                IN  IF ~Truthy(new_name) \/ new_name = old_name
                    THEN /\ out' = << Ev("askstring", old_name) >>
                         /\ UNCHANGED << fs, file_listbox, current_files, renames >>
                    ELSE IF err # "none"
                    THEN /\ out' = << Ev("askstring", old_name), EvX("os.rename", old_path, err),
                                      EvX("showerror", << >>, err) >>
                         /\ UNCHANGED << fs, file_listbox, current_files, renames >>
                    ELSE /\ renames < MaxRenames
                         /\ renames' = renames + 1
                         /\ fs' = renamed
                         /\ \E L \in UpdateFilesResults(renamed, config.logs_dir, current_directory, FALSE) :
                                   /\ file_listbox' = L.rows
                                   /\ current_files' = L.files
                                   /\ out' = << Ev("askstring", old_name), Ev("os.rename", old_path) >>
                                             \o L.out
                                             \o (IF L.exc = "none" THEN << Ev("showinfo", new_name) >>
                                                 ELSE << EvX("showerror", << >>, L.exc) >>)
    /\ UNCHANGED << config, current_path_var, missing_torrents_var, treeVars, current_directory,
                    dialogVars, launchVars, storeVars >>

\* launch_upload_assistant(): the "Upload Assistant" button.  The dialog is
\* constructed and the constructor returns at once, with result None, so
\* the call of execute_upload_assistant is skipped; the dialog stays open
\* and holds the grab.
LaunchUploadAssistant(selection) ==
    /\ dialog = "none"
    /\ selection \in Selections(file_listbox)
    /\ LET selected_file == GetSelectedFile(selection, current_files)
       IN  IF ~TruthyOpt(selected_file)
           THEN /\ out' = << Ev("showwarning", << >>) >>
                /\ UNCHANGED dialogVars
           ELSE /\ dialog' = "ua_args"
                /\ arg_vars' = DialogVars(config)
                /\ result' = None
                /\ out' = << Ev("UAArgsDialog", selected_file[1]) >>
    /\ UNCHANGED << fs, config, current_path_var, missing_torrents_var, treeVars, listVars,
                    renames, launchVars, storeVars >>

\* make_torrent(): the "Make Torrent" button.
MakeTorrent(selection) ==
    /\ dialog = "none"
    /\ selection \in Selections(file_listbox)
    /\ out' = IF ~TruthyOpt(GetSelectedFile(selection, current_files))
              THEN << Ev("showwarning", << >>) >>
              ELSE << Ev("showinfo", << >>) >>
    /\ UNCHANGED << fs, config, current_path_var, missing_torrents_var, treeVars, listVars,
                    dialogVars, renames, launchVars, storeVars >>

(***************************************************************************)
(* UAArgsDialog and SettingsDialog.  A dialog holds the grab from its      *)
(* construction to its destruction: the main window takes no event.        *)
(***************************************************************************)

\* What the operator can type into a text argument: "", "123", " x ", " ".
TextValues == {<< >>, << 49, 50, 51 >>, << 32, 120, 32 >>, << 32 >>}

\* Every state the argument widgets can be brought into.
ArgInputs == {v \in [ArgKeys -> {StrVal(s) : s \in TextValues} \cup {BoolVal(b) : b \in BOOLEAN}] :
                 \A k \in ArgKeys : v[k].isbool = IsBoolArg(k)}

\* The widget states the operator reaches in the running application.
EditChoices == {v \in ArgInputs : v[KeyTag].s = << >> /\ v[KeyTmdb].s \in {<< >>, << 32, 120, 32 >>}}

\* The operator edits the argument widgets.
EditArgs(v) ==
    /\ dialog = "ua_args"
    /\ v \in EditChoices
    /\ arg_vars' = v
    /\ out' = << >>
    /\ UNCHANGED << fs, config, current_path_var, missing_torrents_var, treeVars, listVars,
                    dialog, result, renames, launchVars, storeVars >>

\* The events of the config.set calls of UAArgsDialog.launch, one per key.
RECURSIVE SaveEvents(_)
SaveEvents(keys) == IF keys = << >> THEN << >>
                    ELSE << Ev("save_config", Head(keys)) >> \o SaveEvents(Tail(keys))

\* UAArgsDialog.launch(): the "Launch" button of the dialog.  The values are
\* stored, the result is prepared and the window is destroyed; the variables
\* of the widgets stay with the dialog object.
UAArgsLaunch ==
    /\ dialog = "ua_args"
    /\ config' = SaveArgs(config, arg_vars)
    /\ config_file' = WriteItems(config')
    /\ result' = Some(PrepareResult(arg_vars))
    /\ dialog' = "none"
    /\ out' = SaveEvents(ArgOrder)
    /\ UNCHANGED << fs, current_path_var, missing_torrents_var, treeVars, listVars, arg_vars,
                    renames, launchVars, f_open, seen >>

\* UAArgsDialog.cancel().
UAArgsCancel ==
    /\ dialog = "ua_args"
    /\ dialog' = "none"
    /\ out' = << >>
    /\ UNCHANGED << fs, config, current_path_var, missing_torrents_var, treeVars, listVars,
                    arg_vars, result, renames, launchVars, storeVars >>

\* File > Settings: show_settings().  The constructor of SettingsDialog
\* returns at once, with result False, so the tree is not refreshed.
ShowSettings ==
    /\ dialog = "none"
    /\ dialog' = "settings"
    /\ out' = << Ev("SettingsDialog", << >>) >>
    /\ UNCHANGED << fs, config, current_path_var, missing_torrents_var, treeVars, listVars,
                    arg_vars, result, renames, launchVars, storeVars >>

\* The directories the operator can enter in the settings dialog.
LogsChoices == {PathLogs, PathN}

TorrentsChoices == {PathT, PathN}

\* SettingsDialog.save(), with the three entries as the operator left them.
SettingsSave(logs, torrents, ua) ==
    /\ dialog = "settings"
    /\ config' = [config EXCEPT !.logs_dir = logs, !.torrents_dir = torrents,
                                !.upload_assistant_path = ua]
    /\ config_file' = WriteItems(config')
    /\ dialog' = "none"
    /\ out' = << Ev("save_config", logs), Ev("save_config", torrents), Ev("save_config", ua) >>
    /\ UNCHANGED << fs, current_path_var, missing_torrents_var, treeVars, listVars, arg_vars,
                    result, renames, launchVars, f_open, seen >>

\* SettingsDialog.cancel().
SettingsCancel ==
    /\ dialog = "settings"
    /\ dialog' = "none"
    /\ out' = << >>
    /\ UNCHANGED << fs, config, current_path_var, missing_torrents_var, treeVars, listVars,
                    arg_vars, result, renames, launchVars, storeVars >>

(***************************************************************************)
(* The main window: every operation of the filter panel and of the file    *)
(* panel that opens no dialog.  The dialogs write config and their own     *)
(* fields only, and the operations below read of config only logs_dir.     *)
(***************************************************************************)

Next ==
    \/ \E d \in DirChoices : ChangeDirectory(d)
    \/ RefreshTree
    \/ \E item \in DOMAIN dir_tree : OnDirSelect(item)
    \/ OnFilterChange
    \/ RefreshFiles
    \/ RefreshAll
    \/ \E selection \in Selections(file_listbox), n \in NewNames : RenameFile(selection, n)
    \/ \E selection \in Selections(file_listbox) : MakeTorrent(selection)

Spec == Init /\ [][Next]_vars

(***************************************************************************)
(* The file panel with the arguments dialog: the listing of the base       *)
(* directory in both filter modes, the three buttons, and the dialog from  *)
(* its construction to Launch or Cancel.                                   *)
(***************************************************************************)

NextDialogs ==
    \/ OnFilterChange
    \/ RefreshFiles
    \/ \E selection \in Selections(file_listbox), n \in NewNames : RenameFile(selection, n)
    \/ \E selection \in Selections(file_listbox) : LaunchUploadAssistant(selection)
    \/ \E selection \in Selections(file_listbox) : MakeTorrent(selection)
    \/ \E v \in EditChoices : EditArgs(v)
    \/ UAArgsLaunch
    \/ UAArgsCancel

SpecDialogs == Init /\ [][NextDialogs]_vars

(***************************************************************************)
(* The base path: the operations that set it or build the tree from it,    *)
(* with the settings dialog from its construction to Save or Cancel, and   *)
(* the filter, which reads logs_dir.                                        *)
(***************************************************************************)

NextSettings ==
    \/ \E d \in DirChoices : ChangeDirectory(d)
    \/ RefreshTree
    \/ OnFilterChange
    \/ ShowSettings
    \/ \E logs \in LogsChoices, torrents \in TorrentsChoices :
          SettingsSave(logs, torrents, config.upload_assistant_path)
    \/ SettingsCancel

SpecSettings == Init /\ [][NextSettings]_vars

(***************************************************************************)
(* execute_upload_assistant.  launch_upload_assistant reads the result of  *)
(* the dialog as soon as the constructor returns, when it is still None,   *)
(* so the running application never reaches the call.  The specification  *)
(* below applies the function to what it would be given: a file of the     *)
(* listing and the result UAArgsDialog.launch prepares from the widgets,   *)
(* on each platform.                                                       *)
(***************************************************************************)

\* The programs subprocess.Popen is asked to start.
Programs == {Terminals[i] : i \in DOMAIN Terminals} \cup {ProgCmd}

\* How the start of a terminal emulator can end: it starts, the program is
\* not found, or it is found and may not be executed.
PopenOutcomes == {"ok", "FileNotFoundError", "PermissionError"}

\* The platforms: a Unix-like one, with each terminal emulator starting or
\* failing in either way, where subprocess.run starts the program or does
\* not find it; or Windows, where cmd starts or is not found.
Envs ==
    {[os_name |-> "posix",
      popen |-> [p \in Programs |-> IF p = ProgCmd THEN "FileNotFoundError" ELSE t[p]],
      run |-> r] : t \in [Programs \ {ProgCmd} -> PopenOutcomes], r \in {"ok", "FileNotFoundError"}}
    \cup
    {[os_name |-> "nt",
      popen |-> [p \in Programs |-> IF p \in A THEN "ok" ELSE "FileNotFoundError"],
      run |-> "ok"] : A \in SUBSET {ProgCmd}}

\* The widgets of an open arguments dialog as the operator left them.
InitDispatch ==
    /\ InitPanels
    /\ dialog = "ua_args"
    /\ arg_vars \in ArgInputs
    /\ env \in Envs

\* execute_upload_assistant(file_path, args), args the result of the dialog.
ExecuteUploadAssistant(file_path) ==
    /\ dialog = "none"
    /\ result # None
    /\ cmd' = BuildCmd(config.upload_assistant_path, file_path, result[1])
    /\ LET started == Launch(env, cmd')
       IN  /\ out' = started.out
           /\ spawned' = started.spawned
    /\ UNCHANGED << fs, config, current_path_var, missing_torrents_var, treeVars, listVars,
                    dialogVars, renames, env, storeVars >>

NextDispatch ==
    \/ UAArgsLaunch
    \/ \E i \in DOMAIN current_files : ExecuteUploadAssistant(current_files[i])

SpecDispatch == InitDispatch /\ [][NextDispatch]_vars

(***************************************************************************)
(* The configuration file between the steps of UAConfig.set, with a second *)
(* process that loads it: save_config opens the file for writing, which    *)
(* empties it, config.write fills the buffer of f, the buffer reaches the  *)
(* file whenever it is flushed, and leaving the with block flushes the     *)
(* rest and closes f.                                                      *)
(***************************************************************************)

\* The calls of set() the handlers make: change_directory and the settings
\* dialog store paths, the arguments dialog stores argument values.
StoreSets ==
    {[section |-> "PATHS", key |-> KeyTorrentsDir, value |-> v] : v \in TorrentsChoices}
    \cup {[section |-> "PATHS", key |-> KeyLogsDir, value |-> v] : v \in LogsChoices}
    \cup {[section |-> "UA_ARGS", key |-> KeyTmdb, value |-> v] : v \in {<< >>, << 32, 120, 32 >>}}

\* self.config[section][key] = value.
SetOption(cfg, s) ==
    IF s.section = "UA_ARGS" THEN [cfg EXCEPT !.ua_args[s.key] = s.value]
    ELSE IF s.key = KeyTorrentsDir THEN [cfg EXCEPT !.torrents_dir = s.value]
    ELSE IF s.key = KeyLogsDir THEN [cfg EXCEPT !.logs_dir = s.value]
    ELSE [cfg EXCEPT !.upload_assistant_path = s.value]

\* set(section, key, value) up to open(config_file, 'w') in save_config:
\* the option is set in memory and the file is opened, which truncates it.
SetOpen(s) ==
    /\ f_open = None
    /\ config' = SetOption(config, s)
    /\ config_file' = << >>
    /\ f_open' = Some([replaced |-> config_file, text |-> WriteItems(config')])
    /\ out' = << Ev("save_config", s.value) >>
    /\ UNCHANGED << fs, current_path_var, missing_torrents_var, treeVars, listVars, dialogVars,
                    renames, launchVars, seen >>

\* config.write(f): the buffer of f is flushed, the file now holds the
\* first n items.
SaveFlush(n) ==
    /\ f_open # None
    /\ n \in (Len(config_file) + 1)..Len(f_open[1].text)
    /\ config_file' = FirstItems(f_open[1].text, n)
    /\ UNCHANGED << fs, config, current_path_var, missing_torrents_var, treeVars, listVars,
                    dialogVars, out, renames, launchVars, f_open, seen >>

\* The end of the with block: f is flushed and closed.
SaveClose ==
    /\ f_open # None
    /\ config_file' = f_open[1].text
    /\ f_open' = None
    /\ UNCHANGED << fs, config, current_path_var, missing_torrents_var, treeVars, listVars,
                    dialogVars, out, renames, launchVars, seen >>

\* load_config() of another process of the application: the file exists
\* and is read as it is.
LoadConfig ==
    /\ seen' = ReadItems(config_file)
    /\ UNCHANGED << fs, config, current_path_var, missing_torrents_var, treeVars, listVars,
                    dialogVars, out, renames, launchVars, config_file, f_open >>

NextStore ==
    \/ \E s \in StoreSets : SetOpen(s)
    \/ \E n \in 1..Len(WriteItems(config)) : SaveFlush(n)
    \/ SaveClose
    \/ LoadConfig

SpecStore == Init /\ [][NextStore]_vars

(***************************************************************************)
(* Properties of the directory tree.                                       *)
(***************************************************************************)

\* The items that stand for a directory: those inserted with a path.
DirItems == {item \in DOMAIN dir_tree : dir_tree[item].values # << >>}

\* The children of an item as the tree shows them: text and values, in order.
ChildRows(tree, item) == [i \in 1..Len(GetChildren(tree, item)) |-> tree[GetChildren(tree, item)[i]]]

\* The item is the placeholder "Loading..." child: no path, no children.
IsPlaceholder(tree, q) == tree[q].values = << >> /\ tree[q].text = LoadingText

\* C1: expanding an item is idempotent.  In every reachable state and for
\* every directory item, with the filesystem unchanged, the expansion of
\* on_dir_select applied a second and a third time leaves the children of
\* the item, and the whole tree, as the first application left them.
C1_ExpandIdempotent ==
    \A item \in DirItems :
        LET once == ExpandItem(dir_tree, fs, item).tree
            twice == ExpandItem(once, fs, item).tree
            thrice == ExpandItem(twice, fs, item).tree
        IN  /\ ChildRows(twice, item) = ChildRows(once, item)
            /\ ChildRows(thrice, item) = ChildRows(once, item)
            /\ twice = once
            /\ thrice = once

\* An item was selected and expanded into its one subdirectory, which is
\* named "Loading...": the next selection deletes and inserts that child
\* again, and the tree is as it was.
C1_Witness ==
    \E item \in DirItems :
        /\ tree_selection = Some(item)
        /\ Len(GetChildren(dir_tree, item)) = 1
        /\ dir_tree[Append(item, 1)].text = LoadingText
        /\ dir_tree[Append(item, 1)].values # << >>
        /\ TreeDelete(dir_tree, Append(item, 1)) # dir_tree
        /\ ExpandItem(dir_tree, fs, item).tree = dir_tree

\* C2: in every reachable state no item holds the placeholder together with
\* a real child.  The children of every item, and the top level, are
\* exactly one placeholder, or directory items only, or none; and a
\* placeholder has no children.
C2_PlaceholderAlone ==
    \A item \in DOMAIN dir_tree \cup {Root} :
        LET children == GetChildren(dir_tree, item)
        IN  /\ \/ \A i \in DOMAIN children : dir_tree[children[i]].values # << >>
               \/ Len(children) = 1 /\ IsPlaceholder(dir_tree, children[1])
            /\ (item # Root /\ dir_tree[item].values = << >>) => children = << >>

\* An item was expanded, its placeholder replaced by a directory item that
\* holds a placeholder of its own.
C2_Witness ==
    \E item \in DirItems :
        /\ tree_selection = Some(item)
        /\ GetChildren(dir_tree, item) # << >>
        /\ \A i \in DOMAIN GetChildren(dir_tree, item) :
              /\ dir_tree[Append(item, i)].values # << >>
              /\ Len(GetChildren(dir_tree, Append(item, i))) = 1
              /\ IsPlaceholder(dir_tree, Append(Append(item, i), 1))

(***************************************************************************)
(* Properties of the file panel.                                           *)
(***************************************************************************)

\* The entries load_missing_torrents can give with the logs as they are:
\* the stripped matching lines of the log files.
MissingEntries ==
    UNION {{L.files[i] : i \in DOMAIN L.files} :
              L \in {LoadMissingTorrents(fs, config.logs_dir, log_files) :
                        log_files \in Listed(fs, config.logs_dir, config.logs_dir, TRUE)}}

\* C3: a Missing entry can be neither renamed nor launched.  No handler asks
\* for a new name for a Missing entry, calls os.rename on it, or opens the
\* arguments dialog for it.
C3_MissingRejected ==
    \A i \in DOMAIN out :
        out[i].ev \in {"askstring", "os.rename", "UAArgsDialog"} => out[i].arg \notin MissingEntries

\* The directories update_files can be called with in this state: the
\* selected path, the path of any item of the tree, the directory listed.
DirectoryArgs ==
    {GetSelectedPath, current_directory} \cup {dir_tree[item].values[1] : item \in DirItems}

\* C4: with the missing-only filter on, update_files ignores its directory
\* argument.  For any two directories it can be called with, and the logs
\* as they are, it can leave the same listings.
C4_DirectoryIgnored ==
    \A d1, d2 \in DirectoryArgs :
        UpdateFilesResults(fs, config.logs_dir, d1, TRUE)
            = UpdateFilesResults(fs, config.logs_dir, d2, TRUE)

\* C7: the listing does not depend on the order in which the operating
\* system enumerates a directory.  In both filter modes update_files can
\* leave one listing only, whatever sequence os.listdir returns.
C7_OrderIndependent ==
    \A show_missing_only \in BOOLEAN :
        Cardinality(UpdateFilesResults(fs, config.logs_dir, current_directory,
                                       show_missing_only)) = 1

\* C8: with the missing-only filter on, the listing holds one entry for each
\* line of a log file that contains both tokens, and no other, in
\* file-then-line order; the row is the prefix followed by the stripped
\* line.  Whatever directory update_files is called with and whatever order
\* os.listdir gives the log files in, current_files is the stripped matching
\* lines of those files in that order, and each row is the prefix and the entry.
C8_MissingListing ==
    \A directory \in DirectoryArgs :
        \A log_files \in Listed(fs, config.logs_dir, directory, TRUE) :
            LET L == UpdateFiles(fs, config.logs_dir, directory, TRUE, log_files)
            IN  /\ L.files = MissingOfFiles(fs, config.logs_dir, log_files)
                /\ L.rows = [i \in DOMAIN L.files |-> MissingPrefix \o L.files[i]]

\* How far beyond either end of the listing an index is tried.
MaxBeyond == 2

\* The indices that are tried for a listing.
Indices(files) == (-Len(files) - MaxBeyond)..(Len(files) + MaxBeyond)

BasePathChosen == out # << >> /\ out[1].ev = "askdirectory" /\ out[1].arg # << >>

\* The item has not been expanded: it has no child, or the placeholder only.
Unexpanded(tree, item) ==
    \/ GetChildren(tree, item) = << >>
    \/ Len(GetChildren(tree, item)) = 1 /\ IsPlaceholder(tree, Append(item, 1))

\* No event of the latest handler carries an exception.
NoErrorSurfaced == \A i \in DOMAIN out : out[i].exc = "none"

ItemSet(args) == {args[i] : i \in DOMAIN args}

InDeclaredOrder(args) ==
    LET present == SelectSeq(ConfigArgOrder, LAMBDA k : \E a \in ItemSet(args) : a.key = k)
    IN  [i \in DOMAIN present |-> CHOOSE a \in ItemSet(args) : a.key = present[i]]

\* C5: the flags follow the declared order of the keys, not the insertion
\* order of the dict.  For the result of a dialog, the flags built from it
\* are those built from the same items entered in the declared order and in
\* any other order.
C5_FlagOrder ==
    result # None =>
        /\ Flags(result[1]) = Flags(InDeclaredOrder(result[1]))
        /\ \A args \in Orders(ItemSet(result[1])) : Flags(args) = Flags(result[1])

\* The concatenation of a sequence of sequences.
RECURSIVE Concat(_)
Concat(seqs) == IF seqs = << >> THEN << >> ELSE Head(seqs) \o Concat(Tail(seqs))

\* What the claim has emitted for the widgets of a dialog: "--key" for each
\* boolean that is set, "--key", value for each text value that is not empty
\* once stripped, the value being the stripped text.
FlagPieces(widgets) ==
    {<< Dashes \o k >> : k \in {x \in ArgKeys : widgets[x].isbool /\ widgets[x].b}}
    \cup {<< Dashes \o k, Strip(widgets[k].s) >> :
             k \in {x \in ArgKeys : ~widgets[x].isbool /\ Strip(widgets[x].s) # << >>}}

\* {tmdb: "123", freeleech: true, tag: ""}
ExampleVars == [k \in ArgKeys |-> IF k = KeyTmdb THEN StrVal(<< 49, 50, 51 >>)
                                  ELSE IF k = KeyFreeleech THEN BoolVal(TRUE)
                                  ELSE StrVal(<< >>)]

\* C6: the command built for the result of a dialog is the program, the
\* file, and then exactly the pieces above, each once: nothing for a boolean
\* that is not set or a text value that is empty or blank.  The widgets
\* {tmdb: "123", freeleech: true, tag: ""} give "--tmdb", "123", "--freeleech".
C6_FlagRules ==
    cmd # << >> =>
        /\ cmd[1] = config.upload_assistant_path
        /\ cmd[2] \in {current_files[i] : i \in DOMAIN current_files}
        /\ \E pieces \in Orders(FlagPieces(arg_vars)) : SubSeq(cmd, 3, Len(cmd)) = Concat(pieces)
        /\ arg_vars = ExampleVars =>
              SubSeq(cmd, 3, Len(cmd)) = << Dashes \o KeyTmdb, << 49, 50, 51 >>, Dashes \o KeyFreeleech >>

\* A command was built from widgets holding a text value with blanks around
\* it, a blank text value and a boolean that is set.
C6_Witness ==
    /\ cmd # << >>
    /\ arg_vars[KeyTmdb].s = << 32, 120, 32 >>
    /\ arg_vars[KeyTag].s = << 32 >>
    /\ arg_vars[KeyFreeleech].b
    /\ SubSeq(cmd, 3, Len(cmd)) = << Dashes \o KeyTmdb, << 120 >>, Dashes \o KeyFreeleech >>

(***************************************************************************)
(* Properties of populate_tree: the probe and the listing of children.     *)
(***************************************************************************)

\* The directories of the filesystem: the paths populate_tree can be given
\* for an item it has just listed.
Directories(fsys) == {p \in DOMAIN fsys : fsys[p].kind = "dir"}

\* C11: the probe agrees with the listing of children.  For every directory
\* of the filesystem, readable or not, every item populate_tree attaches for
\* it has the placeholder child if and only if populate_tree on that item's
\* path, in the same filesystem, lists at least one child; and no other child.
C11_ProbeAgrees ==
    \A path \in Directories(fs) :
        LET built == PopulateTree(EmptyTree, fs, Root, path).tree
        IN  \A i \in DOMAIN GetChildren(built, Root) :
                LET below == GetChildren(built, << i >>)
                IN  /\ ProbeHasChildren(fs, built[<< i >>].values[1])
                          <=> ListChildren(fs, built[<< i >>].values[1]) # << >>
                    /\ below # << >> <=> ListChildren(fs, built[<< i >>].values[1]) # << >>
                    /\ below # << >> => Len(below) = 1 /\ IsPlaceholder(built, below[1])

\* The tree shows an expanded item whose child got the placeholder, and an
\* item without one for a directory that cannot be read although it holds a
\* directory.
C11_Witness ==
    /\ \E item \in DirItems : /\ Len(item) = 2
                              /\ GetChildren(dir_tree, item) # << >>
                              /\ IsPlaceholder(dir_tree, Append(item, 1))
    /\ \E item \in DirItems : LET p == dir_tree[item].values[1]
                              IN  /\ GetChildren(dir_tree, item) = << >>
                                  /\ ListdirError(fs, p) = "PermissionError"
                                  /\ \E x \in ListNames(fs, p) : IsDir(fs, Join(p, x))

\* A directory "/t" that holds the directories B, a and C and the file f.mkv.
ExampleFS == DirEntry(PathT, TRUE) @@ DirEntry(PathB, TRUE) @@ DirEntry(PathA, TRUE)
             @@ DirEntry(<< 47, 116, 47, 67 >>, TRUE) @@ FileEntry(PathF, TRUE, << >>)

\* C12: populate_tree lists only directories, in ascending case-sensitive
\* order of name, the same list whatever order os.listdir returns the names
\* in, and nothing, without an error, for a directory that cannot be read.
\* The directories B, a, C are listed as B, C, a.
C12_ListChildren ==
    /\ \A D \in Directories(fs) :
          LET L == ListChildren(fs, D)
          IN  /\ {L[i] : i \in DOMAIN L} = {x \in ListNames(fs, D) : IsDir(fs, Join(D, x))}
                    \/ ListdirError(fs, D) # "none"
              /\ \A i \in DOMAIN L : IsDir(fs, Join(D, L[i]))
              /\ \A i, j \in DOMAIN L : i < j => StrLess(L[i], L[j])
              /\ \A order \in ListdirOrders(fs, D) :
                    ListdirError(fs, D) = "none" => PopulateItems(fs, D, order) = L
              /\ ListdirError(fs, D) = "PermissionError" =>
                    L = << >> /\ PopulateTree(EmptyTree, fs, Root, D).exc = "none"
    /\ ListChildren(ExampleFS, PathT) = << << 66 >>, << 67 >>, << 97 >> >>

\* After a rename the tree was rebuilt from a directory that holds a file
\* and two directories, which it shows with the upper-case name first.
C12_Witness ==
    /\ out = << >>
    /\ renames > 0
    /\ \E x \in ListNames(fs, current_path_var) : IsFile(fs, Join(current_path_var, x))
    /\ Len(GetChildren(dir_tree, Root)) = 2
    /\ dir_tree[<< 1 >>].text = << 90 >>
    /\ dir_tree[<< 2 >>].text = << 97 >>

\* The argument bag in which every text value is empty and every boolean is
\* false, as the set of its items.
EmptyBag == {[key |-> k, value |-> IF IsBoolArg(k) THEN BoolVal(FALSE) ELSE StrVal(<< >>)] :
                k \in ArgKeys}

\* C13: for a bag in which every text value is empty and every boolean is
\* false the command is the executable followed by the target path, and
\* nothing else: for the bag handed over as it is, in any insertion order,
\* and for the result the dialog prepares from such widgets.
C13_NoFlags ==
    /\ \A args \in Orders(EmptyBag) : \A i \in DOMAIN current_files :
          BuildCmd(config.upload_assistant_path, current_files[i], args)
              = << config.upload_assistant_path, current_files[i] >>
    /\ cmd # << >> /\ arg_vars = DialogVars(InitConfig) =>
          /\ Len(cmd) = 2
          /\ cmd[1] = config.upload_assistant_path
          /\ cmd[2] \in {current_files[i] : i \in DOMAIN current_files}

\* A command was built, and a terminal started for it, from a dialog whose
\* widgets were all empty or unticked.
C13_Witness ==
    /\ arg_vars = DialogVars(InitConfig)
    /\ result = Some(<< [key |-> KeyFreeleech, value |-> BoolVal(FALSE)] >>)
    /\ Len(cmd) = 2
    /\ spawned # << >>

(***************************************************************************)
(* Properties of the launch.                                               *)
(***************************************************************************)

\* The events of the latest handler of one kind.
EventsOf(kind) == SelectSeq(out, LAMBDA e : e.ev = kind)

\* execute_upload_assistant was the latest step.
Executed == \E i \in DOMAIN current_files : ExecuteUploadAssistant(current_files[i])

\* C14: a launch that starts nothing shows exactly one error message, tries
\* no program twice, lets no exception leave the handler and leaves the
\* listing, the tree, the configuration and the filesystem as they were;
\* no dialog is left open.
C14_LaunchFailure ==
    [][Executed /\ spawned' = << >> =>
          /\ Len(SelectSeq(out', LAMBDA e : e.ev = "showerror")) = 1
          /\ out'[Len(out')].ev = "showerror"
          /\ \A i, j \in DOMAIN out' : i # j => out'[i].ev = "showerror" \/ out'[i].arg # out'[j].arg
          /\ \A i \in DOMAIN out' : out'[i].ev # "unhandled"
          /\ dialog' = "none"
          /\ UNCHANGED << fs, config, current_path_var, treeVars, listVars >>]_vars

\* No terminal emulator was found and subprocess.run did not find the
\* program: four failed starts, the failed run and one message.
C14_Witness ==
    /\ cmd # << >>
    /\ spawned = << >>
    /\ env.os_name = "posix"
    /\ Len(EventsOf("Popen")) = 4
    /\ \A i \in 1..4 : out[i].exc = "FileNotFoundError"
    /\ Len(EventsOf("run")) = 1
    /\ Len(EventsOf("showerror")) = 1
    /\ Len(out) = 6

(***************************************************************************)
(* Properties of the scan of the logs.                                     *)
(***************************************************************************)

\* The log file can be opened and read.
CanRead(fsys, log_path) == IsFile(fsys, log_path) /\ fsys[Abs(log_path)].readable

\* The stripped lines of the file at log_path that contain both tokens,
\* whether the program can read the file or not.
MatchingLines(fsys, log_path) ==
    LET lines == Split(fsys[Abs(log_path)].content, 10)
    IN  {Strip(lines[i]) : i \in {j \in DOMAIN lines : LineMatches(lines[j])}}

\* C15: a log file that cannot be read is skipped, and only that file.  For
\* every order in which the log files are scanned, the scan ends without an
\* error, every matching line of every log file that can be read is in the
\* listing, wherever the file that cannot be read stands in the order, and
\* no line of a file that cannot be read is.
C15_ReadFailureSkipsFile ==
    \A log_files \in Listed(fs, config.logs_dir, current_directory, TRUE) :
        LET L == LoadMissingTorrents(fs, config.logs_dir, log_files)
            listed == {L.files[i] : i \in DOMAIN L.files}
            path(f) == Join(config.logs_dir, f)
        IN  ListdirError(fs, config.logs_dir) = "none" =>
                /\ L.exc = "none"
                /\ L.out = << >>
                /\ \A i \in DOMAIN log_files :
                      IF CanRead(fs, path(log_files[i]))
                      THEN MatchingLines(fs, path(log_files[i])) \subseteq listed
                      ELSE MatchingLines(fs, path(log_files[i])) \cap listed = {}
                /\ Len(L.rows) = Len(L.files)

\* The listing shows the lines of y.log and of x.log, in that order, and no
\* line of u.log, which cannot be read and holds a matching line.
C15_Witness ==
    /\ missing_torrents_var
    /\ ~CanRead(fs, PathU) /\ MatchingLines(fs, PathU) # {}
    /\ Len(current_files) = 3
    /\ current_files[1] \in MatchingLines(fs, PathY)
    /\ current_files[2] \in MatchingLines(fs, PathX)
    /\ \A i \in DOMAIN current_files : current_files[i] \notin MatchingLines(fs, PathU)

(***************************************************************************)
(* Properties of the refresh operations.                                   *)
(***************************************************************************)

\* A step that refreshes the file listing: the Refresh button and View >
\* Refresh Files, File > Refresh, and a rename that succeeded.
RefreshesListing == RefreshFiles \/ RefreshAll \/ renames' # renames

\* C16: every refresh of the listing reads the filter.  After a refresh the
\* listing is one update_files can leave for the directory shown with the
\* filter as it stands: the missing entries when the filter is on, the
\* directory listing when it is off.
C16_RefreshReadsFilter ==
    [][RefreshesListing =>
          \E L \in UpdateFilesResults(fs', config.logs_dir, current_directory, missing_torrents_var) :
              file_listbox' = L.rows /\ current_files' = L.files]_vars

(***************************************************************************)
(* Properties of the configured base path.                                 *)
(***************************************************************************)

\* A step that completes a change of the base path: change_directory with a
\* path chosen, or Save in the settings dialog with another torrents
\* directory entered.
BasePathChanges ==
    \/ \E d \in DirChoices \ {<< >>} : ChangeDirectory(d)
    \/ \E logs \in LogsChoices, torrents \in TorrentsChoices \ {config.torrents_dir} :
          SettingsSave(logs, torrents, config.upload_assistant_path)

\* C17: after every completed change of the base path the tree is built
\* anew from the stored PATHS/torrents_dir: the path shown and used by the
\* tree is the stored one, and the tree is the one refresh_directory_tree
\* builds from it.
C17_TreeFollowsBasePath ==
    [][BasePathChanges =>
          /\ current_path_var' = config'.torrents_dir
          /\ dir_tree' = RefreshDirectoryTree(fs', config'.torrents_dir).tree]_vars

(***************************************************************************)
(* Properties of the items of the tree.                                    *)
(***************************************************************************)

\* C18: selecting an item, which expands it, removes no item that stands
\* for a directory: every such item of the tree is still there after
\* on_dir_select, where it was and as it was, whatever its name.
C18_RealNodesKept ==
    [][(\E item \in DOMAIN dir_tree : OnDirSelect(item)) =>
          \A q \in DirItems : q \in DOMAIN dir_tree' /\ dir_tree'[q] = dir_tree[q]]_vars

(***************************************************************************)
(* Properties of the handling of failures.                                 *)
(***************************************************************************)

\* C19: no failure of the filesystem leaves the handler that meets it.
\* Whatever is at the path (nothing, a file, a directory that cannot be
\* read, a directory removed since the tree listed it), rebuilding the tree,
\* expanding an item and updating the listing end without an exception that
\* reaches the event loop.
C19_NoFailureEscapes ==
    \A i \in DOMAIN out : out[i].ev # "unhandled"

\* C20: on a Unix-like platform the terminals are tried in the order
\* gnome-terminal, xterm, konsole, terminator, each one after the terminals
\* before it were not found; the first that starts ends the launch: no
\* terminal is tried after it, subprocess.run is not called, and one process
\* is started, that terminal with the command; a launch never starts more
\* than one process.
C20_FirstTerminalWins ==
    cmd # << >> /\ env.os_name = "posix" =>
        LET tried == EventsOf("Popen")
        IN  /\ Len(tried) <= Len(Terminals)
            /\ \A i \in DOMAIN tried :
                  /\ out[i] = tried[i]
                  /\ tried[i].arg = Terminals[i]
                  /\ \A j \in 1..(i - 1) : tried[j].exc = "FileNotFoundError"
                  /\ tried[i].exc = "none" =>
                        /\ i = Len(tried)
                        /\ Len(out) = i
                        /\ spawned = << TerminalArgv(Terminals[i], cmd) >>
            /\ \A i \in DOMAIN Terminals :
                  env.popen[Terminals[i]] = "ok"
                  /\ (\A j \in 1..(i - 1) : env.popen[Terminals[j]] = "FileNotFoundError")
                      => Len(tried) = i /\ tried[i].exc = "none"
            /\ EventsOf("run") # << >> =>
                  /\ Len(tried) = Len(Terminals)
                  /\ \A i \in DOMAIN tried : tried[i].exc = "FileNotFoundError"
            /\ Len(spawned) <= 1

\* gnome-terminal was not found, xterm started, and konsole, which would
\* have started too, was not tried.
C20_Witness ==
    /\ cmd # << >>
    /\ env.os_name = "posix"
    /\ env.popen[TermKonsole] = "ok"
    /\ out = << EvX("Popen", TermGnome, "FileNotFoundError"), Ev("Popen", TermXterm) >>
    /\ spawned = << TerminalArgv(TermXterm, cmd) >>

\* C21: the launch goes on from one terminal to the next only when the
\* terminal was not found, and always then; a terminal that fails in
\* another way ends the launch.  subprocess.run is called, once, if and
\* only if none of the four terminals was found.
C21_AdvanceOnNotFound ==
    cmd # << >> /\ env.os_name = "posix" =>
        LET tried == EventsOf("Popen")
            runs == EventsOf("run")
            none_found == \A i \in DOMAIN Terminals : env.popen[Terminals[i]] = "FileNotFoundError"
        IN  /\ tried # << >>
            /\ \A i \in DOMAIN tried :
                  /\ tried[i].exc = (IF env.popen[tried[i].arg] = "ok" THEN "none"
                                      ELSE env.popen[tried[i].arg])
                  /\ i < Len(tried) <=> (tried[i].exc = "FileNotFoundError" /\ i < Len(Terminals))
            /\ Len(runs) <= 1
            /\ Len(runs) = 1 <=> none_found
            /\ runs # << >> => /\ out[Len(tried) + 1] = runs[1]
                               /\ runs[1].arg = cmd[1]
                               /\ runs[1].exc = "none" <=> spawned = << cmd >>

\* None of the four terminals was found and subprocess.run ran the command.
C21_Witness ==
    /\ cmd # << >>
    /\ env.os_name = "posix"
    /\ Len(EventsOf("Popen")) = 4
    /\ out[5] = Ev("run", cmd[1])
    /\ Len(out) = 5
    /\ spawned = << cmd >>

(***************************************************************************)
(* Properties of the expansion of an item.                                 *)
(***************************************************************************)

\* A step of on_dir_select that expanded the selected item: the only steps
\* that change the tree and leave an item selected.
Expanded == tree_selection' # None /\ dir_tree' # dir_tree

\* C22: an expansion materialises one level.  After an on_dir_select that
\* changed the tree, every child of the selected item stands for a
\* directory and has no child, or the placeholder as its only child, the
\* placeholder being there exactly when populate_tree lists a child for the
\* directory; nothing lies deeper under the selected item.
C22_OneLevel ==
    [][Expanded =>
          LET item == tree_selection'[1]
          IN  /\ \A q \in DOMAIN dir_tree' : IsWithin(q, item) => Len(q) <= Len(item) + 2
              /\ \A i \in DOMAIN GetChildren(dir_tree', item) :
                    LET q == Append(item, i)
                        below == GetChildren(dir_tree', q)
                    IN  /\ dir_tree'[q].values # << >>
                        /\ below = << >> \/ (Len(below) = 1 /\ IsPlaceholder(dir_tree', below[1]))
                        /\ below # << >> <=> ListChildren(fs, dir_tree'[q].values[1]) # << >>]_vars

\* The selected item was expanded: it shows a directory, which shows the
\* placeholder and nothing else.
C22_Witness ==
    /\ tree_selection # None
    /\ out = << >>
    /\ LET item == tree_selection[1]
       IN  /\ item \in DirItems
           /\ Append(item, 1) \in DirItems
           /\ Len(GetChildren(dir_tree, Append(item, 1))) = 1
           /\ IsPlaceholder(dir_tree, Append(Append(item, 1), 1))
           /\ ListChildren(fs, dir_tree[Append(item, 1)].values[1]) # << >>

(***************************************************************************)
(* The configuration file as other processes see it.                       *)
(***************************************************************************)

\* A step that reads the configuration file: it leaves the file and the
\* writer alone.
LoadsConfig == UNCHANGED << config, config_file, f_open >>

\* The configuration on disk before the write in progress and after it.
CompleteConfigs ==
    IF f_open = None THEN {ReadItems(WriteItems(config))}
    ELSE {ReadItems(f_open[1].replaced), ReadItems(f_open[1].text)}

\* C23: a write of the configuration is atomic for its readers: whoever
\* loads the file at any step of a set/save gets the complete configuration
\* from before the write or the complete one after it, never an empty or a
\* partly written one.
C23_AtomicWrite == [][LoadsConfig => seen' \in CompleteConfigs]_vars

\* A reader has loaded the file while it was open for writing.
C23_ReadWhileWriting == f_open # None /\ seen = ReadItems(config_file)

(***************************************************************************)
(* The rows of the listing and the entries behind them.                    *)
(***************************************************************************)

\* Row i shows a Real entry: the entry is the directory listed joined with
\* the name in the row.
RealRow(i) == current_files[i] = Join(current_directory, file_listbox[i])

\* Row i shows a Missing entry: the row is the prefix and the entry.
MissingRow(i) == file_listbox[i] = MissingPrefix \o current_files[i]

\* C24: the listing and current_files stay aligned.  In every state the
\* listbox has as many rows as current_files has entries, and row i shows
\* the entry at index i: its file name when the entry is a path of the
\* directory listed, the prefixed line when it is a missing entry; the rows
\* of one listing are all of one kind.
C24_RowsAligned ==
    /\ Len(file_listbox) = Len(current_files)
    /\ \/ \A i \in DOMAIN file_listbox : RealRow(i) /\ file_listbox[i] = BaseName(current_files[i])
       \/ \A i \in DOMAIN file_listbox : MissingRow(i)

\* After a directory was selected and the filter was switched on, the
\* listing holds the three missing entries of the logs, each row the prefix
\* and its entry, none of them a path of the directory.
C24_Witness ==
    /\ current_directory = PathA
    /\ missing_torrents_var
    /\ Len(current_files) = 3
    /\ \A i \in DOMAIN file_listbox : MissingRow(i) /\ ~RealRow(i)

(***************************************************************************)
(* The two ways the arguments dialog ends.                                 *)
(***************************************************************************)

\* A step in which the open arguments dialog is cancelled, or confirmed.
DialogCancelled == dialog = "ua_args" /\ dialog' = "none" /\ result' = None

DialogConfirmed == dialog = "ua_args" /\ dialog' = "none" /\ result' # None

\* Nothing of the configuration, in memory or on disk, and nothing of the
\* dispatcher changes in the step.
NothingStoredOrLaunched ==
    /\ UNCHANGED << config, config_file, cmd, spawned >>
    /\ EventsOf("save_config") = << >> /\ EventsOf("Popen") = << >> /\ EventsOf("run") = << >>

\* After the step the configuration holds the value of every argument
\* widget, a boolean as 'true' or 'false', and the file on disk holds the
\* configuration.
ArgsPersisted ==
    /\ \A k \in ArgKeys :
          config'.ua_args[k] = IF arg_vars[k].isbool
                               THEN (IF arg_vars[k].b THEN StrTrue ELSE StrFalse)
                               ELSE arg_vars[k].s
    /\ config_file' = WriteItems(config')

\* After the step the command for an entry of the listing is built from the
\* result of the dialog.
CommandLaunched ==
    \E i \in DOMAIN current_files :
        cmd' = BuildCmd(config'.upload_assistant_path, current_files[i], result'[1])

\* C25: cancelling the arguments dialog stores nothing and builds or
\* launches no command; confirming it stores every argument value and then
\* launches the command.
C25_CancelAndConfirm ==
    [][/\ DialogCancelled => NothingStoredOrLaunched
       /\ DialogConfirmed => ArgsPersisted /\ CommandLaunched]_vars
=============================================================================
